---------------------------- MODULE Spec2Model ----------------------------
(***************************************************************************)
(* Model of src/SVC.py, the major/minor change classifier (class Checker). *)
(*                                                                         *)
(* A Python string is a sequence of one-character strings.  A regular      *)
(* expression is a value (Lit, Cls, Cat, Alt, Rep, WordB, ...) and Ends    *)
(* matches it the way Python's backtracking re module does: the ends of    *)
(* the matches at a position, in the order the engine tries them.          *)
(***************************************************************************)
EXTENDS Integers, Sequences, FiniteSets, TLC

VARIABLES
    vocab_dict,   \* self.vocab_dict: word -> index
    numpy_file,   \* the rows read from the TSV file, each <<string1, string2>>
    n,            \* rows of numpy_file consumed by the loop of predict
    predictions,  \* the list `predictions` of predict
    calls,        \* log of the _generate / model.predict invocations
    printed,      \* what predict has printed (<<>> before the print)
    pc,           \* position of the running operation
    arg,          \* argument of the function under test (function harnesses)
    ret           \* values returned by the function under test

vars == <<vocab_dict, numpy_file, n, predictions, calls, printed, pc, arg, ret>>

(***************************************************************************)
(* Characters and character classes                                        *)
(***************************************************************************)
Letters == {"a","b","c","d","e","f","g","h","i","j","k","l","m",
            "n","o","p","q","r","s","t","u","v","w","x","y","z"}

Digits == {"0","1","2","3","4","5","6","7","8","9"}

\* \w once the text is lower-cased ASCII
WordChars == Letters \cup Digits \cup {"_"}

\* the characters kept by "[^a-z0-9 ']"
KeptChars == Letters \cup Digits \cup {" ", "'"}

ToLower == [c \in {"A","B","C","D","E","F","G","H","I","J","K","L","M",
                   "N","O","P","Q","R","S","T","U","V","W","X","Y","Z"} |->
              CASE c = "A" -> "a" [] c = "B" -> "b" [] c = "C" -> "c"
                [] c = "D" -> "d" [] c = "E" -> "e" [] c = "F" -> "f"
                [] c = "G" -> "g" [] c = "H" -> "h" [] c = "I" -> "i"
                [] c = "J" -> "j" [] c = "K" -> "k" [] c = "L" -> "l"
                [] c = "M" -> "m" [] c = "N" -> "n" [] c = "O" -> "o"
                [] c = "P" -> "p" [] c = "Q" -> "q" [] c = "R" -> "r"
                [] c = "S" -> "s" [] c = "T" -> "t" [] c = "U" -> "u"
                [] c = "V" -> "v" [] c = "W" -> "w" [] c = "X" -> "x"
                [] c = "Y" -> "y" [] c = "Z" -> "z"]

\* str.lower()
lower(text) ==
    [k \in 1..Len(text) |->
        IF text[k] \in DOMAIN ToLower THEN ToLower[text[k]] ELSE text[k]]

(***************************************************************************)
(* Regular expressions (the subset of Python's re the source uses)         *)
(***************************************************************************)
Lit(cs)        == [t |-> "lit", cs |-> cs]           \* literal characters
Cls(S)         == [t |-> "cls", set |-> S]           \* [...]  one of S
NotCls(S)      == [t |-> "ncls", set |-> S]          \* [^...]
AnyChar        == [t |-> "any"]                      \* .
WordB          == [t |-> "wordb"]                    \* \b
Cat(rs)        == [t |-> "seq", rs |-> rs]           \* r1 r2 ...
Alt(rs)        == [t |-> "alt", rs |-> rs]           \* r1|r2|...
WordAlt(rs)    == [t |-> "walt", rs |-> rs]          \* \br1\b|\br2\b|...
Rep(r, lo, hi) == [t |-> "rep", r |-> r, lo |-> lo, hi |-> hi]  \* greedy r{lo,hi}; hi = -1: no limit
Star(r)        == Rep(r, 0, -1)
Plus(r)        == Rep(r, 1, -1)

\* \b at position i (between s[i-1] and s[i])
IsWordBoundary(s, i) ==
    LET before == i > 1 /\ s[i-1] \in WordChars
        after  == i <= Len(s) /\ s[i] \in WordChars
    IN  before # after

RECURSIVE Ends(_,_,_), EndsFrom(_,_,_), SeqEnds(_,_,_,_), AltEnds(_,_,_,_),
          WordAltEnds(_,_,_,_)

\* The end positions (index of the first character after the match) of the
\* matches of r in s that start at i, in the engine's order of preference.
Ends(r, s, i) ==
    CASE r.t = "lit" ->
            IF i + Len(r.cs) - 1 <= Len(s) /\ SubSeq(s, i, i + Len(r.cs) - 1) = r.cs
            THEN <<i + Len(r.cs)>> ELSE <<>>
      [] r.t = "cls" ->
            IF i <= Len(s) /\ s[i] \in r.set THEN <<i + 1>> ELSE <<>>
      [] r.t = "ncls" ->
            IF i <= Len(s) /\ s[i] \notin r.set THEN <<i + 1>> ELSE <<>>
      [] r.t = "any" ->
            IF i <= Len(s) THEN <<i + 1>> ELSE <<>>
      [] r.t = "wordb" ->
            IF IsWordBoundary(s, i) THEN <<i>> ELSE <<>>
      [] r.t = "seq" -> SeqEnds(r.rs, 1, s, <<i>>)
      [] r.t = "alt" -> AltEnds(r.rs, 1, s, i)
      [] r.t = "walt" ->
            \* every alternative starts with \b: it is tested once
            IF IsWordBoundary(s, i) THEN WordAltEnds(r.rs, 1, s, i) ELSE <<>>
      [] r.t = "rep" ->
            (IF r.hi = 0 THEN <<>>
             ELSE EndsFrom(Rep(r.r, IF r.lo > 0 THEN r.lo - 1 ELSE 0,
                                    IF r.hi < 0 THEN -1 ELSE r.hi - 1),
                           s, Ends(r.r, s, i)))
            \o (IF r.lo = 0 THEN <<i>> ELSE <<>>)

\* the matches of r from each of the start positions, in order
EndsFrom(r, s, starts) ==
    IF starts = <<>> THEN <<>>
    ELSE Ends(r, s, Head(starts)) \o EndsFrom(r, s, Tail(starts))

\* the matches of rs[k], rs[k+1], ... in sequence from each start position
SeqEnds(rs, k, s, starts) ==
    IF k > Len(rs) \/ starts = <<>> THEN starts
    ELSE SeqEnds(rs, k + 1, s, EndsFrom(rs[k], s, starts))

\* the matches of rs[k] | rs[k+1] | ... at i
AltEnds(rs, k, s, i) ==
    IF k > Len(rs) THEN <<>>
    ELSE Ends(rs[k], s, i) \o AltEnds(rs, k + 1, s, i)

\* the matches of rs[k]\b | rs[k+1]\b | ... at i
WordAltEnds(rs, k, s, i) ==
    LET AtBoundary(e) == IsWordBoundary(s, e)
    IN  IF k > Len(rs) THEN <<>>
        ELSE SelectSeq(Ends(rs[k], s, i), AtBoundary) \o WordAltEnds(rs, k + 1, s, i)

\* A replacement template: the text of group 1 when g1tail >= 0 (group 1 is
\* the match without its last g1tail characters), followed by lit.
Repl(lit)          == [g1tail |-> -1, lit |-> lit]
ReplG1(g1tail, lit) == [g1tail |-> g1tail, lit |-> lit]

Expand(repl, m) ==
    (IF repl.g1tail >= 0 THEN SubSeq(m, 1, Len(m) - repl.g1tail) ELSE <<>>)
    \o repl.lit

RECURSIVE SubFrom(_,_,_,_)
SubFrom(r, repl, s, i) ==
    IF i > Len(s) THEN <<>>
    ELSE LET es == Ends(r, s, i)
         IN  IF es # <<>> /\ es[1] > i
             THEN Expand(repl, SubSeq(s, i, es[1] - 1)) \o SubFrom(r, repl, s, es[1])
             ELSE <<s[i]>> \o SubFrom(r, repl, s, i + 1)

\* re.sub(pattern, repl, string): the leftmost non-overlapping matches replaced
re_sub(r, repl, s) == SubFrom(r, repl, s, 1)

RECURSIVE FindFrom(_,_,_)
FindFrom(r, s, i) ==
    IF i > Len(s) THEN <<>>
    ELSE LET es == Ends(r, s, i)
         IN  IF es # <<>> /\ es[1] > i
             THEN <<SubSeq(s, i, es[1] - 1)>> \o FindFrom(r, s, es[1])
             ELSE FindFrom(r, s, i + 1)

\* re.findall(pattern, string) for a pattern without groups
re_findall(r, s) == FindFrom(r, s, 1)

(***************************************************************************)
(* Checker.__init__: the rule set                                          *)
(***************************************************************************)
fillers == <<
    Lit(<<"a","l","l"," ","r","i","g","h","t">>),  \* all right
    Lit(<<"a","l","r","i","g","h","t">>),  \* alright
    Cat(<<Plus(Lit(<<"m">>)), Lit(<<" ","h">>), Plus(Lit(<<"m">>))>>),  \* m+ hm+
    Lit(<<"o","k","a","y">>),  \* okay
    Lit(<<"r","i","g","h","t">>),  \* right
    Lit(<<"u","h"," ","h","u","h">>),  \* uh huh
    Lit(<<"y","e","a","h">>),  \* yeah
    Lit(<<"y","e","s">>),  \* yes
    Lit(<<"y","u","p">>),  \* yup
    Lit(<<"a","h","a">>),  \* aha
    Cat(<<Lit(<<"o">>), Plus(Lit(<<"h">>))>>),  \* oh+
    Cat(<<Lit(<<"h">>), Plus(Lit(<<"m">>))>>),  \* hm+
    Cat(<<Lit(<<"m">>), Plus(Lit(<<"m">>))>>),  \* mm+
    Cat(<<Lit(<<"u">>), Plus(Lit(<<"m">>))>>),  \* um+
    Lit(<<"a","c","t","u","a","l","l","y">>),  \* actually
    Lit(<<"b","a","s","i","c","a","l","l","y">>),  \* basically
    Lit(<<"i"," ","g","u","e","s","s">>),  \* i guess
    Lit(<<"i"," ","m","e","a","n">>),  \* i mean
    Lit(<<"i"," ","t","h","i","n","k">>),  \* i think
    Lit(<<"k","i","n","d","a">>),  \* kinda
    Lit(<<"k","i","n","d"," ","o","f">>),  \* kind of
    Lit(<<"l","i","k","e">>),  \* like
    Lit(<<"r","e","a","l","l","y">>),  \* really
    Lit(<<"s","o","r","t","a">>),  \* sorta
    Lit(<<"s","o","r","t"," ","o","f">>),  \* sort of
    Lit(<<"y","o","u"," ","k","n","o","w">>),  \* you know
    Lit(<<"a">>),  \* a
    Lit(<<"a","n">>),  \* an
    Lit(<<"t","h","e">>),  \* the
    Lit(<<"a","n","d">>),  \* and
    Lit(<<"i","n">>),  \* in
    Lit(<<"i","t">>),  \* it
    Lit(<<"o","f">>),  \* of
    Lit(<<"o","n">>),  \* on
    Lit(<<"o","r">>),  \* or
    Lit(<<"s","o">>),  \* so
    Lit(<<"t","h","a","t">>),  \* that
    Lit(<<"t","o">>),  \* to
    Lit(<<"a","m">>),  \* am
    Lit(<<"e","x","c","u","s","e"," ","m","e">>),  \* excuse me
    Lit(<<"o","'","c","l","o","c","k">>),  \* o'clock
    Lit(<<"s","o"," ","t","o"," ","s","p","e","a","k">>),  \* so to speak
    Lit(<<"t","h","a","t","'","s"," ","g","o","o","d">>),  \* that's good
    Cat(<<Lit(<<"s">>), Plus(Cls(Digits))>>)  \* s\d+  (speaker tracking)
    >>

metas == <<
    <<"a","p","p","l","a","u","s","e">>,
    <<"a","u","t","o","m","a","t","e","d"," ","v","o","i","c","e">>,
    <<"b","a","c","k","g","r","o","u","n","d"," ","c","o","n","v","e","r","s","a","t","i","o","n">>,
    <<"c","h","u","c","k","l","e">>,
    <<"e","n","d"," ","p","a","r","e","n">>,
    <<"f","o","r","e","i","g","n"," ","l","a","n","g","u","a","g","e">>,
    <<"l","a","u","g","h","t","e","r">>,
    <<"m","u","s","i","c">>,
    <<"n","o","i","s","e">>,
    <<"o","v","e","r","l","a","p","p","i","n","g"," ","c","o","n","v","e","r","s","a","t","i","o","n">>,
    <<"p","a","u","s","e">>,
    <<"s","t","a","r","t"," ","p","a","r","e","n">>,
    <<"v","i","d","e","o"," ","p","l","a","y","b","a","c","k">>,
    <<"v","o","c","a","l","i","z","a","t","i","o","n">>
    >>

\* "\\b" + "\\b|\\b".join(fillers) + "\\b"
_fillers == WordAlt(fillers)

\* "\[" + "\]|\[".join(metas) + "\]"
_metas == Alt([k \in 1..Len(metas) |-> Lit(<<"[">> \o metas[k] \o <<"]">>)])

(***************************************************************************)
(* scribie_num2text.num_to_text: the number-to-text collaborator.  Its     *)
(* code is not part of the sources; it is modelled from the specification  *)
(* ("42" -> "forty two": the English words of the number, space separated).*)
(***************************************************************************)
DigitVal(c) ==
    CASE c = "0" -> 0 [] c = "1" -> 1 [] c = "2" -> 2 [] c = "3" -> 3
      [] c = "4" -> 4 [] c = "5" -> 5 [] c = "6" -> 6 [] c = "7" -> 7
      [] c = "8" -> 8 [] c = "9" -> 9

RECURSIVE IntOf(_)
IntOf(ds) ==
    IF ds = <<>> THEN 0
    ELSE 10 * IntOf(SubSeq(ds, 1, Len(ds) - 1)) + DigitVal(ds[Len(ds)])

OnesWords == <<
    <<"o","n","e">>,
    <<"t","w","o">>,
    <<"t","h","r","e","e">>,
    <<"f","o","u","r">>,
    <<"f","i","v","e">>,
    <<"s","i","x">>,
    <<"s","e","v","e","n">>,
    <<"e","i","g","h","t">>,
    <<"n","i","n","e">>,
    <<"t","e","n">>,
    <<"e","l","e","v","e","n">>,
    <<"t","w","e","l","v","e">>,
    <<"t","h","i","r","t","e","e","n">>,
    <<"f","o","u","r","t","e","e","n">>,
    <<"f","i","f","t","e","e","n">>,
    <<"s","i","x","t","e","e","n">>,
    <<"s","e","v","e","n","t","e","e","n">>,
    <<"e","i","g","h","t","e","e","n">>,
    <<"n","i","n","e","t","e","e","n">>
    >>

TensWords == <<
    <<"t","e","n">>,
    <<"t","w","e","n","t","y">>,
    <<"t","h","i","r","t","y">>,
    <<"f","o","r","t","y">>,
    <<"f","i","f","t","y">>,
    <<"s","i","x","t","y">>,
    <<"s","e","v","e","n","t","y">>,
    <<"e","i","g","h","t","y">>,
    <<"n","i","n","e","t","y">>
    >>

RECURSIVE Join(_,_)
\* sep.join(words)
Join(words, sep) ==
    IF words = <<>> THEN <<>>
    ELSE IF Len(words) = 1 THEN words[1]
    ELSE words[1] \o sep \o Join(Tail(words), sep)

\* the words of a number below one thousand (none for 0)
WordsBelow1000(v) ==
    LET h == v \div 100
        r == v % 100
    IN  (IF h > 0 THEN <<OnesWords[h], <<"h","u","n","d","r","e","d">>>> ELSE <<>>)
        \o (IF r = 0 THEN <<>>
            ELSE IF r < 20 THEN <<OnesWords[r]>>
            ELSE <<TensWords[r \div 10]>>
                 \o (IF r % 10 > 0 THEN <<OnesWords[r % 10]>> ELSE <<>>))

num_to_text(num) ==
    LET v == IntOf(num)
    IN  IF v = 0 THEN <<"z","e","r","o">>
        ELSE Join((IF v \div 1000000 > 0
                   THEN WordsBelow1000(v \div 1000000) \o <<<<"m","i","l","l","i","o","n">>>>
                   ELSE <<>>)
                  \o (IF (v \div 1000) % 1000 > 0
                      THEN WordsBelow1000((v \div 1000) % 1000)
                           \o <<<<"t","h","o","u","s","a","n","d">>>>
                      ELSE <<>>)
                  \o WordsBelow1000(v % 1000),
                  <<" ">>)

(***************************************************************************)
(* Checker._oov_clean, Checker._num_replace, Checker._cleaner              *)
(***************************************************************************)
\* the characters str.split() splits on
Whitespace == {" ", "\t", "\n", "\r"}

RECURSIVE SplitFrom(_,_,_)
SplitFrom(s, i, cur) ==
    IF i > Len(s) THEN (IF cur = <<>> THEN <<>> ELSE <<cur>>)
    ELSE IF s[i] \in Whitespace
         THEN (IF cur = <<>> THEN <<>> ELSE <<cur>>) \o SplitFrom(s, i + 1, <<>>)
         ELSE SplitFrom(s, i + 1, Append(cur, s[i]))

\* str.split(): the maximal runs of non-whitespace characters
split(s) == SplitFrom(s, 1, <<>>)

\* _oov_clean without the vocabulary test
_oov_clean_nofilter(string) == Join(split(string), <<" ">>)

_oov_clean(string) ==
    LET InVocab(word) == word \in DOMAIN vocab_dict
    IN  Join(SelectSeq(split(string), InVocab), <<" ">>)

RECURSIVE NumLoop(_,_,_)
\* for num,word in zip(nums,words): string = re.sub(num,word,string)
NumLoop(nums, k, string) ==
    IF k > Len(nums) THEN string
    ELSE NumLoop(nums, k + 1,
                 re_sub(Lit(nums[k]),
                        Repl(<<" ">> \o num_to_text(nums[k]) \o <<" ">>),
                        string))

_num_replace(string) ==
    NumLoop(re_findall(Plus(Cls(Digits)), string), 1, string)

\* the substitutions of _cleaner, in the order of the source
Timestamps == Cat(<<Star(Lit(<<"[">>)), Cls(Digits), Lit(<<":">>), Plus(Cls(Digits)),
                    Lit(<<":">>), Plus(Cls(Digits)), AnyChar, Cls(Digits),
                    Star(Lit(<<"]">>))>>)
Step_timestamps(text) == re_sub(Timestamps, Repl(<<>>), text)
Step_dashes(text) == re_sub(Alt(<<Lit(<<"-">>), Lit(<<":">>)>>), Repl(<<" ">>), text)
Step_metas(text) == re_sub(_metas, Repl(<<>>), text)
Step_keep(text) == re_sub(NotCls(KeptChars), Repl(<<>>), text)

Step_casual(text) ==
    LET t1 == re_sub(Cat(<<Lit(<<"'","t","i">>), Rep(Lit(<<"l">>), 1, 2)>>), Repl(<<"u","n","t","i","l">>), text)
        t2 == re_sub(Lit(<<"'","e","m">>), Repl(<<"t","h","e","m">>), t1)
        t3 == re_sub(Lit(<<"'","c","a","u","s","e">>), Repl(<<"b","e","c","a","u","s","e">>), t2)
    IN  re_sub(Cat(<<Alt(<<Lit(<<"d">>), Lit(<<"g">>)>>), Lit(<<"o","i","n","'">>)>>),
               ReplG1(4, <<"o","i","n","g"," ">>), t3)

Step_contracted(text) ==
    LET t1 == re_sub(Lit(<<"'","m">>), Repl(<<" ","a","m">>), text)
        t2 == re_sub(Lit(<<"'","v","e">>), Repl(<<" ","h","a","v","e">>), t1)
        t3 == re_sub(Lit(<<"'","l","l">>), Repl(<<" ","w","i","l","l">>), t2)
        t4 == re_sub(Lit(<<"c","a","n","'","t">>), Repl(<<"c","a","n","n","o","t">>), t3)
        t5 == re_sub(Lit(<<"w","o","n","'","t">>), Repl(<<"w","i","l","l"," ","n","o","t">>), t4)
        t6 == re_sub(Lit(<<"a","i","n","'","t">>), Repl(<<"a","r","e"," ","n","o","t">>), t5)
        t7 == re_sub(Lit(<<"n","'","t">>), Repl(<<" ","n","o","t">>), t6)
        t8 == re_sub(Cat(<<Lit(<<"'","s">>), WordB>>), Repl(<<>>), t7)
    IN  re_sub(Cat(<<Lit(<<"'","d">>), WordB>>), Repl(<<>>), t8)

Step_ordinals(text) ==
    LET t1 == re_sub(Cat(<<Star(Cls(Digits)), Lit(<<"1","s","t">>)>>), ReplG1(3, <<"0"," ","f","i","r","s","t">>), text)
        t2 == re_sub(Cat(<<Star(Cls(Digits)), Lit(<<"2","n","d">>)>>), ReplG1(3, <<"0"," ","s","e","c","o","n","d">>), t1)
        t3 == re_sub(Cat(<<Star(Cls(Digits)), Lit(<<"3","r","d">>)>>), ReplG1(3, <<"0"," ","t","h","i","r","d">>), t2)
    IN  re_sub(Cat(<<Plus(Cls(Digits)), Lit(<<"t","h">>)>>), ReplG1(2, <<>>), t3)

\* the filler removal left out
Step_fillers_skipped(text) == text

Step_fillers(text) == re_sub(_fillers, Repl(<<>>), text)

\* _cleaner without its last step, the removal of OOVs
CleanText_noOov(text) ==
    Join(split(_num_replace(Step_fillers(Step_ordinals(Step_contracted(
        Step_casual(Step_keep(Step_metas(Step_dashes(Step_timestamps(
            lower(text))))))))))), <<" ">>)

\* the body of the loop of _cleaner: one string cleaned
CleanText(text) ==
    _oov_clean(_num_replace(Step_fillers(Step_ordinals(Step_contracted(
        Step_casual(Step_keep(Step_metas(Step_dashes(Step_timestamps(
            lower(text)))))))))))

_cleaner(strings) == [k \in 1..Len(strings) |-> CleanText(strings[k])]

(***************************************************************************)
(* The metric engine: Checker._indexer, _str_ratio, _wmd_getter, _generate *)
(* A call returns [raised |-> "", value |-> v], or the exception it raises *)
(* as [raised |-> <name>, value |-> <<>>].                                 *)
(***************************************************************************)
Ok(v)    == [raised |-> "", value |-> v]
Raise(e) == [raised |-> e, value |-> <<>>]

\* self.eps = 1e-4, as the fraction EpsNum / EpsDen
EpsNum == 1
EpsDen == 10000

RECURSIVE sum(_)
sum(xs) == IF xs = <<>> THEN 0 ELSE Head(xs) + sum(Tail(xs))

\* [self.vocab_dict[word] for word in features]
Indices(features) == [k \in 1..Len(features) |-> vocab_dict[features[k]]]

AllInVocab(features) == \A k \in 1..Len(features) : features[k] \in DOMAIN vocab_dict

\* _indexer normalizing by the second sum alone
_indexer_secondSum(string1, string2) ==
    LET s1_features == split(string1)
        s2_features == split(string2)
    IN  IF ~AllInVocab(s1_features) \/ ~AllInVocab(s2_features)
        THEN Raise("KeyError")
        ELSE LET s1 == sum(Indices(s1_features))
                 s2 == sum(Indices(s2_features))
             IN  Ok([num |-> (s2 - s1) * EpsDen,
                     den |-> s2 * EpsDen + EpsNum])

\* float(s2-s1)/(s2+s1+self.eps), as the exact fraction num / den
_indexer(string1, string2) ==
    LET s1_features == split(string1)
        s2_features == split(string2)
    IN  IF ~AllInVocab(s1_features) \/ ~AllInVocab(s2_features)
        THEN Raise("KeyError")
        ELSE LET s1 == sum(Indices(s1_features))
                 s2 == sum(Indices(s2_features))
             IN  Ok([num |-> (s2 - s1) * EpsDen,
                     den |-> (s2 + s1) * EpsDen + EpsNum])

\* fuzz.ratio of the fuzzywuzzy library: the call, on its arguments
_str_ratio(string1, string2) == Ok([fuzz_ratio |-> <<string1, string2>>])

\* the tokens CountVectorizer(token_pattern='[\w\']+') finds in a document
\* (it lower-cases the document first)
cv_tokens(doc) == re_findall(Plus(Cls(WordChars \cup {"'"})), lower(doc))

Count(tokens, word) == Cardinality({k \in 1..Len(tokens) : tokens[k] = word})

\* emd(v_1, v_2, D_cosine) of the pyemd library on the embedding rows of the
\* features: the call, on its arguments.  v_1 and v_2 are the counts of each
\* feature divided by (their sum + eps), as fractions.
_wmd_getter(string1, string2) ==
    LET t1 == cv_tokens(string1)
        t2 == cv_tokens(string2)
        features == {t1[k] : k \in 1..Len(t1)} \cup {t2[k] : k \in 1..Len(t2)}
    IN  IF features = {} THEN Raise("ValueError")
        ELSE IF \E word \in features : word \notin DOMAIN vocab_dict
        THEN Raise("KeyError")
        ELSE Ok([emd_rows |-> [word \in features |-> vocab_dict[word]],
                 v_1 |-> [word \in features |->
                            [num |-> Count(t1, word) * EpsDen,
                             den |-> Len(t1) * EpsDen + EpsNum]],
                 v_2 |-> [word \in features |->
                            [num |-> Count(t2, word) * EpsDen,
                             den |-> Len(t2) * EpsDen + EpsNum]]])

\* _generate with the first two features exchanged
_generate_swapped(str1, str2) ==
    LET wmd == _wmd_getter(str1, str2)
        idx == _indexer(str1, str2)
        ratio == _str_ratio(str1, str2)
    IN  IF wmd.raised # "" THEN wmd
        ELSE IF idx.raised # "" THEN idx
        ELSE Ok(<< idx.value, wmd.value, ratio.value >>)

\* np.asarray([wmd,idx,ratio]).reshape([1,-1])
_generate(str1, str2) ==
    LET wmd == _wmd_getter(str1, str2)
        idx == _indexer(str1, str2)
        ratio == _str_ratio(str1, str2)
    IN  IF wmd.raised # "" THEN wmd
        ELSE IF idx.raised # "" THEN idx
        ELSE Ok(<< wmd.value, idx.value, ratio.value >>)

(***************************************************************************)
(* Checker.__init__: the vocabulary                                        *)
(***************************************************************************)
\* {w: i for i, w in enumerate(vocab_list)}
VocabDict(vocab_list) ==
    [w \in {vocab_list[k] : k \in 1..Len(vocab_list)} |->
        (CHOOSE k \in 1..Len(vocab_list) :
            /\ vocab_list[k] = w
            /\ \A j \in (k+1)..Len(vocab_list) : vocab_list[j] # w) - 1]

(***************************************************************************)
(* Checker.predict                                                         *)
(***************************************************************************)
\* the labels the frozen classifier may return, as str() prints them
Labels == { <<"1">>, <<"2">> }

\* the two empty-string tests of predict exchanged
Branch_firstChecked(s1, s2) ==
    IF s1 = <<>> THEN "major"
    ELSE IF s2 = <<>> THEN "minor"
    ELSE "svc"

\* predict without its test of the first string
Branch_noMajor(s1, s2) ==
    IF s2 = <<>> THEN "minor"
    ELSE "svc"

\* the branch predict takes for a cleaned row
Branch(s1, s2) ==
    IF s2 = <<>> THEN "minor"
    ELSE IF s1 = <<>> THEN "major"
    ELSE "svc"

\* the label put in front of the list
AppendLabel_front(preds, label) == << label >> \o preds

\* predictions.append(label)
AppendLabel(preds, label) == Append(preds, label)

Event(fn, row, args, result) == [fn |-> fn, row |-> row, args |-> args, ret |-> result]

\* one iteration of the loop over numpy_file
PredictRow ==
    /\ pc = "loop"
    /\ n < Len(numpy_file)
    /\ \E row \in { _cleaner(numpy_file[n + 1]) } :
         \E branch \in { Branch(row[1], row[2]) } :
           LET s1 == row[1]
               s2 == row[2]
               cleaned == Event("_cleaner", n + 1, numpy_file[n + 1], row)
           IN  \/ /\ branch = "minor"
                  /\ predictions' = AppendLabel(predictions, <<"1">>)
                  /\ calls' = Append(calls, cleaned)
                  /\ n' = n + 1
                  /\ pc' = pc
               \/ /\ branch = "major"
                  /\ predictions' = AppendLabel(predictions, <<"2">>)
                  /\ calls' = Append(calls, cleaned)
                  /\ n' = n + 1
                  /\ pc' = pc
               \/ /\ branch = "svc"
                  /\ \E values \in { _generate(s1, s2) } :
                       LET generated == Event("_generate", n + 1, << s1, s2 >>, values)
                       IN  IF values.raised # ""
                           THEN \* the exception leaves predict: nothing is printed
                                /\ calls' = calls \o << cleaned, generated >>
                                /\ pc' = "raised"
                                /\ UNCHANGED << predictions, n >>
                           ELSE \E label \in Labels :
                                /\ predictions' = AppendLabel(predictions, label)
                                /\ calls' = calls \o << cleaned, generated,
                                       Event("model.predict", n + 1, values.value, label) >>
                                /\ n' = n + 1
                                /\ pc' = pc
    /\ UNCHANGED << vocab_dict, numpy_file, printed, arg, ret >>

\* predictions = ",".join(predictions); print(predictions)
PrintPredictions ==
    /\ pc = "loop"
    /\ n = Len(numpy_file)
    /\ printed' = << Join(predictions, << "," >>) >>
    /\ pc' = "done"
    /\ UNCHANGED << vocab_dict, numpy_file, n, predictions, calls, arg, ret >>

(***************************************************************************)
(* Inputs                                                                  *)
(***************************************************************************)
\* vocabulary files (embed.vocab), one word per line
VocabA == <<
    <<"i","s">>,
    <<"o","n","e">>,
    <<"i">>,
    <<"t","h","i","n","k">>,
    <<"a">>,
    <<"t","w","o">>,
    <<"h","e","l","l","o">>,
    <<"t","w","e","n","t","y">>,
    <<"2">>,
    <<"s","e","c","o","n","d">>,
    <<"t","e","n">>,
    <<"z","e","r","o">>,
    <<"o","k","a","y">>
    >>

VocabB == << <<"h","e","l","l","o">>, <<"o","n","e">> >>

VocabC == << <<"i">>, <<"t","h","i","n","k">>, <<"h","e","l","l","o">> >>

Vocabs == {VocabA, VocabB}

\* raw strings of the rows of the TSV file
RowStrings == {
    <<>>,
    <<"i","t"," ","i","s">>,
    <<"H","e","l","l","o"," ","1"," ","2","1">>
    }

\* the pair of the end-to-end scenario
ScenarioFirst == <<"u","m",","," ","I"," ","t","h","i","n","k"," ","i","t","'","s"," ","o","k","a","y">>
ScenarioSecond == <<"i","t"," ","i","s"," ","o","k","a","y">>

\* rows of a file
MaxRows == 2

Files(strings) ==
    UNION {[1..k -> strings \X strings] : k \in 0..MaxRows}

InitPredict(strings) ==
    /\ vocab_dict \in {VocabDict(v) : v \in Vocabs}
    /\ numpy_file \in Files(strings)
    /\ n = 0
    /\ predictions = <<>>
    /\ calls = <<>>
    /\ printed = <<>>
    /\ pc = "loop"
    /\ arg = <<>>
    /\ ret = <<>>

Init == InitPredict(RowStrings)

Next == PredictRow \/ PrintPredictions

Spec == Init /\ [][Next]_vars

\* predict on files made of the strings of the end-to-end scenario
InitScenario == InitPredict({ScenarioFirst, ScenarioSecond})

SpecScenario == InitScenario /\ [][Next]_vars

(***************************************************************************)
(* Function harnesses: one function applied to inputs drawn from bounded   *)
(* sets.  The variables of predict keep their initial values.              *)
(***************************************************************************)
InitHarness ==
    /\ numpy_file = <<>>
    /\ n = 0
    /\ predictions = <<>>
    /\ calls = <<>>
    /\ printed = <<>>
    /\ pc = "call"
    /\ ret = <<>>

RECURSIVE Concat(_)
Concat(pieces) == IF pieces = <<>> THEN <<>> ELSE Head(pieces) \o Concat(Tail(pieces))

\* raw strings for _cleaner: up to MaxPieces of these pieces, concatenated
Pieces == {
    <<"I"," ">>,
    <<"t","h","i","n","k">>,
    <<" ">>,
    <<"a">>,
    <<"1">>,
    <<"'","s">>,
    <<"2","n","d">>,
    <<"-">>
    }

MaxPieces == 3

CleanerInputs ==
    {Concat(ps) : ps \in UNION {[1..k -> Pieces] : k \in 0..MaxPieces}}

InitCleaner ==
    /\ InitHarness
    /\ vocab_dict \in {VocabDict(v) : v \in Vocabs}
    /\ arg \in CleanerInputs

\* _cleaner on a raw string
CleanOnce ==
    /\ pc = "call"
    /\ \E out \in { _cleaner(<< arg >>) } : ret' = << out[1] >>
    /\ pc' = "cleaned"
    /\ UNCHANGED << vocab_dict, numpy_file, n, predictions, calls, printed, arg >>

\* _cleaner on what _cleaner returned
CleanAgain ==
    /\ pc = "cleaned"
    /\ \E out \in { _cleaner(<< ret[1] >>) } : ret' = Append(ret, out[1])
    /\ pc' = "recleaned"
    /\ UNCHANGED << vocab_dict, numpy_file, n, predictions, calls, printed, arg >>

NextCleaner == CleanOnce \/ CleanAgain

SpecCleaner == InitCleaner /\ [][NextCleaner]_vars

\* strings for _num_replace: up to MaxNumLen of these characters
NumChars == {"1", "2", " ", "a"}

MaxNumLen == 4

NumInputs == UNION {[1..k -> NumChars] : k \in 0..MaxNumLen}

InitNum ==
    /\ InitHarness
    /\ vocab_dict = VocabDict(VocabA)
    /\ arg \in NumInputs

NumReplace ==
    /\ pc = "call"
    /\ ret' = << _num_replace(arg) >>
    /\ pc' = "returned"
    /\ UNCHANGED << vocab_dict, numpy_file, n, predictions, calls, printed, arg >>

NextNum == NumReplace

SpecNum == InitNum /\ [][NextNum]_vars

\* normalized strings for _indexer: up to MaxTokens words of the vocabulary,
\* joined by single spaces
MaxTokens == 2

NormStrings(words) ==
    {Join(ws, << " " >>) : ws \in UNION {[1..k -> words] : k \in 0..MaxTokens}}

InitIndexer ==
    /\ InitHarness
    /\ vocab_dict \in {VocabDict(v) : v \in {VocabB, VocabC}}
    /\ arg \in NormStrings(DOMAIN vocab_dict) \X NormStrings(DOMAIN vocab_dict)

IndexerForward ==
    /\ pc = "call"
    /\ ret' = << _indexer(arg[1], arg[2]) >>
    /\ pc' = "forward"
    /\ UNCHANGED << vocab_dict, numpy_file, n, predictions, calls, printed, arg >>

IndexerBackward ==
    /\ pc = "forward"
    /\ ret' = Append(ret, _indexer(arg[2], arg[1]))
    /\ pc' = "both"
    /\ UNCHANGED << vocab_dict, numpy_file, n, predictions, calls, printed, arg >>

NextIndexer == IndexerForward \/ IndexerBackward

SpecIndexer == InitIndexer /\ [][NextIndexer]_vars

(***************************************************************************)
(* Properties                                                              *)
(***************************************************************************)
\* the events that predict logged for row k
EventsOf(fn, k) == {j \in 1..Len(calls) : calls[j].fn = fn /\ calls[j].row = k}

\* the pair _cleaner returned for row k
Cleaned(k) == calls[CHOOSE j \in EventsOf("_cleaner", k) : TRUE].ret

\* rows for which the loop of predict has emitted a label
Labelled == 1..Len(predictions)

\* C1: a row whose second string normalizes to the empty string gets the
\* label "1", whatever the first string normalizes to (also when both are
\* empty).
C1_EmptySecondIsMinor ==
    \A k \in Labelled :
        Cleaned(k)[2] = <<>> => predictions[k] = <<"1">>

\* a file with a row whose two strings both normalize to empty (the second
\* one from a non-empty raw string) and a row where only the second does
C1_Witness ==
    /\ pc = "done"
    /\ \E k \in Labelled :
        /\ Cleaned(k) = << <<>>, <<>> >>
        /\ numpy_file[k][2] # <<>>
        /\ predictions[k] = <<"1">>
    /\ \E k \in Labelled :
        /\ Cleaned(k)[1] # <<>>
        /\ Cleaned(k)[2] = <<>>
        /\ predictions[k] = <<"1">>

\* C2: a row whose first string normalizes to the empty string and whose
\* second string normalizes to a non-empty string gets the label "2".
C2_EmptyFirstIsMajor ==
    \A k \in Labelled :
        (Cleaned(k)[1] = <<>> /\ Cleaned(k)[2] # <<>>) => predictions[k] = <<"2">>

\* a labelled row whose first string, not empty as read, normalizes to empty
\* while the second does not
C2_Witness ==
    \E k \in Labelled :
        /\ numpy_file[k][1] # <<>>
        /\ Cleaned(k)[1] = <<>>
        /\ Cleaned(k)[2] # <<>>
        /\ predictions[k] = <<"2">>

\* the label decided for row k: "1" or "2" for a degenerate row, else what
\* the classifier returned for the row
DecidedLabel(k) ==
    IF Cleaned(k)[2] = <<>> THEN <<"1">>
    ELSE IF Cleaned(k)[1] = <<>> THEN <<"2">>
    ELSE calls[CHOOSE j \in EventsOf("model.predict", k) : TRUE].ret

\* C3: predict emits exactly one label per row, in input order: the i-th row
\* cleaned is the i-th row of the file, the i-th label is the label decided
\* for that row, and the line printed is these labels, comma separated.
C3_OneLabelPerRowInOrder ==
    /\ pc # "raised" => Len(predictions) = n
    /\ \A k \in Labelled :
        /\ Cardinality(EventsOf("_cleaner", k)) = 1
        /\ calls[CHOOSE j \in EventsOf("_cleaner", k) : TRUE].args = numpy_file[k]
        /\ predictions[k] = DecidedLabel(k)
    /\ pc = "done" =>
        /\ Len(predictions) = Len(numpy_file)
        /\ printed = << Join([k \in 1..Len(numpy_file) |-> DecidedLabel(k)], << "," >>) >>

\* a printed file of two rows with different labels, the first one decided
\* by the classifier
C3_Witness ==
    /\ pc = "done"
    /\ Len(numpy_file) = 2
    /\ EventsOf("model.predict", 1) # {}
    /\ predictions[1] # predictions[2]

\* C9: _generate and model.predict are invoked for a row only if both of its
\* normalized strings are non-empty, and then exactly once, the classifier
\* on (WMD, Index-Ratio, String-Ratio); for a row with an empty normalized
\* string neither is invoked, and no error is raised.
C9_MetricEngineOnlyForNonEmpty ==
    /\ pc # "raised"
    /\ \A k \in Labelled :
        LET s1 == Cleaned(k)[1]
            s2 == Cleaned(k)[2]
        IN  IF s1 # <<>> /\ s2 # <<>>
            THEN /\ Cardinality(EventsOf("_generate", k)) = 1
                 /\ Cardinality(EventsOf("model.predict", k)) = 1
                 /\ \A j \in EventsOf("_generate", k) : calls[j].args = << s1, s2 >>
                 /\ \A j \in EventsOf("model.predict", k) :
                        calls[j].args = << _wmd_getter(s1, s2).value,
                                           _indexer(s1, s2).value,
                                           _str_ratio(s1, s2).value >>
            ELSE /\ EventsOf("_generate", k) = {}
                 /\ EventsOf("model.predict", k) = {}

\* a file with a row that went to the classifier and a degenerate row
C9_Witness ==
    /\ \E k \in Labelled : EventsOf("model.predict", k) # {}
    /\ \E k \in Labelled : Cleaned(k)[1] = <<>> /\ EventsOf("_generate", k) = {}

\* the words of sequence ws are keys of the vocabulary
InVocabulary(ws) == \A k \in 1..Len(ws) : ws[k] \in DOMAIN vocab_dict

\* C10: for every row that reaches the metric engine, every token _indexer
\* gets by splitting on whitespace and every token _wmd_getter gets with
\* [\w']+ is a key of the vocabulary, and no lookup error is raised.
C10_NoMissingVocabularyEntry ==
    /\ pc # "raised"
    /\ \A j \in 1..Len(calls) :
        calls[j].fn = "_generate" =>
            /\ calls[j].ret.raised = ""
            /\ InVocabulary(split(calls[j].args[1]))
            /\ InVocabulary(split(calls[j].args[2]))
            /\ InVocabulary(cv_tokens(calls[j].args[1]))
            /\ InVocabulary(cv_tokens(calls[j].args[2]))

\* the metric engine ran on a string of several tokens, one of them a digit
\* that _num_replace left in place, from a raw string with a word outside
\* the vocabulary
C10_Witness ==
    \E j \in 1..Len(calls) :
        /\ calls[j].fn = "_generate"
        /\ Len(split(calls[j].args[2])) >= 3
        /\ \E t \in 1..Len(calls[j].args[2]) : calls[j].args[2][t] \in Digits
        /\ calls[j].args[1] = <<"i","s">>

\* C7 as claimed: for the raw pair ("um, I think it's okay", "it is okay")
\* both normalized strings are non-empty, neither empty-string branch is
\* taken, and the label is the one the classifier returns for the row.
C7_ScenarioReachesClassifier ==
    \A k \in Labelled :
        numpy_file[k] = << ScenarioFirst, ScenarioSecond >> =>
            /\ Cleaned(k)[1] # <<>>
            /\ Cleaned(k)[2] # <<>>
            /\ \E j \in EventsOf("model.predict", k) : calls[j].ret = predictions[k]

\* C7 amended: for that raw pair the first string normalizes to the empty
\* string (um, i think, it and okay are fillers, 's is dropped) and the
\* second to "is" when "is" is in the vocabulary, to the empty string
\* otherwise; the label is "2" in the first case and "1" in the second, and
\* neither _generate nor the classifier is invoked.
C7_ScenarioFirstIsEmpty ==
    \A k \in Labelled :
        numpy_file[k] = << ScenarioFirst, ScenarioSecond >> =>
            /\ Cleaned(k)[1] = <<>>
            /\ Cleaned(k)[2] = (IF <<"i","s">> \in DOMAIN vocab_dict THEN <<"i","s">> ELSE <<>>)
            /\ predictions[k] = (IF <<"i","s">> \in DOMAIN vocab_dict THEN <<"2">> ELSE <<"1">>)
            /\ EventsOf("_generate", k) = {}
            /\ EventsOf("model.predict", k) = {}

\* the scenario pair labelled, once with "is" in the vocabulary
C7_Witness ==
    \E k \in Labelled :
        /\ numpy_file[k] = << ScenarioFirst, ScenarioSecond >>
        /\ <<"i","s">> \in DOMAIN vocab_dict
        /\ predictions[k] = <<"2">>

\* C4: every whitespace-separated token of a string returned by _cleaner is
\* a key of the vocabulary, and the tokens are joined by single spaces with
\* no leading or trailing space.
C4_OovInvariant ==
    \A k \in 1..Len(ret) :
        /\ InVocabulary(split(ret[k]))
        /\ \A i \in 1..Len(ret[k]) :
            ret[k][i] \in Whitespace =>
                /\ ret[k][i] = " "
                /\ 1 < i
                /\ i < Len(ret[k])
                /\ ret[k][i + 1] \notin Whitespace

\* _cleaner returned two or more tokens for a raw string it shortened
C4_Witness ==
    /\ pc = "cleaned"
    /\ Len(split(ret[1])) >= 2
    /\ Len(ret[1]) < Len(arg)

\* C5 as claimed: _cleaner applied to an output of _cleaner returns that
\* output unchanged.
C5_Idempotent == pc = "recleaned" => ret[2] = ret[1]

RECURSIVE ExpandRuns(_,_)
\* s from position i on, each maximal digit run replaced by a space, the
\* expansion of the whole run and a space
ExpandRuns(s, i) ==
    IF i > Len(s) THEN <<>>
    ELSE IF s[i] \in Digits
         THEN LET e == CHOOSE j \in i..Len(s) :
                           /\ \A t \in i..j : s[t] \in Digits
                           /\ (j = Len(s) \/ s[j + 1] \notin Digits)
              IN  << " " >> \o num_to_text(SubSeq(s, i, e)) \o << " " >>
                  \o ExpandRuns(s, e + 1)
         ELSE << s[i] >> \o ExpandRuns(s, i + 1)

\* C6 as claimed: _num_replace returns the string with each maximal digit
\* run replaced, at its position, by a space, the expansion of that whole
\* run and a space, every other character unchanged; no digit survives.
C6_EveryRunExpanded ==
    pc = "returned" =>
        /\ ret[1] = ExpandRuns(arg, 1)
        /\ \A i \in 1..Len(ret[1]) : ret[1][i] \notin Digits

\* the sum of the vocabulary indices of the tokens of a string
IndexSum(string) == sum([k \in 1..Len(split(string)) |-> vocab_dict[split(string)[k]]])

\* C8: _indexer(a, b) = -_indexer(b, a): the two calls have the denominator
\* sum1+sum2+eps and opposite numerators, and the value is 0 when the two
\* index sums are equal.
C8_IndexRatioAntisymmetric ==
    pc = "both" =>
        /\ ret[1].raised = ""
        /\ ret[2].raised = ""
        /\ ret[1].value.num = - ret[2].value.num
        /\ ret[1].value.den = ret[2].value.den
        /\ ret[1].value.den = (IndexSum(arg[1]) + IndexSum(arg[2])) * EpsDen + EpsNum
        /\ (IndexSum(arg[1]) = IndexSum(arg[2]) => ret[1].value.num = 0)

\* both calls made on strings of two tokens with different index sums
C8_Witness ==
    /\ pc = "both"
    /\ Len(split(arg[1])) = 2
    /\ Len(split(arg[2])) = 2
    /\ ret[1].value.num > 0
    /\ ret[2].value.num < 0

=============================================================================
